---- MODULE Spec2Model ----
(***************************************************************************)
(* Silence-detection and mute-state reconciliation core of the extension   *)
(* content script (class AudioLevelMonitor, src/unnamed/part_001).         *)
(*                                                                         *)
(* Time is counted in milliseconds.  The monitor reads lastUnmuteTime only *)
(* in the difference Date.now() - lastUnmuteTime, so the model keeps that  *)
(* difference (sinceLastUnmute), saturated at the cooldown length: every   *)
(* value at or above the cooldown behaves alike.  The constructor's        *)
(* lastUnmuteTime = 0 (the epoch) is the saturated value.                  *)
(*                                                                         *)
(* silenceDuration is an IEEE-754 double that the tick loop builds by      *)
(* repeated "+= 0.1".  A reachable value is kept exactly as                *)
(*      ticks/10 + err * 2^-56 / 10                                        *)
(* (ticks additions since the last reset, err the accumulated rounding     *)
(* error), and AddTenth rounds as the hardware does.                       *)
(***************************************************************************)
EXTENDS Integers, Sequences, FiniteSets, TLC

\* ------------------------------------------------------------- bounds
\* most consecutive sub-threshold ticks the model follows
MaxSilenceTicks == 31
\* the tick timer fires at most this many intervals late
MaxLate == 1
\* most synthesized key presses the control has not yet handled
MaxPendingKeys == 1
\* loudness samples are 0..MaxLevel, in hundredths
MaxLevel == 2
\* most init() calls under way at once (timers of restartMonitoring included),
\* most audio contexts open at once, most tick timers pending at once
MaxInits == 2
\* most consecutive sub-threshold ticks the life-cycle model follows
MaxLifeSilenceTicks == 2
\* most consecutive sub-threshold ticks the settings model follows
MaxConfigSilenceTicks == 21
\* longest aria-label of the button, in pieces of text
MaxLabelLen == 2
\* most class names on the button
MaxClasses == 1
\* most consecutive sub-threshold ticks the wall-clock model follows
MaxWallSilenceTicks == 4
\* most page-state watchers the watcher model follows
MaxWatchers == 2
\* most consecutive sub-threshold ticks the userscript model follows
MaxUserscriptSilenceTicks == 11
\* most messages of one type the background service counts between two resets
MaxMessages == 5

\* ---------------------------------------------------- program constants
\* setTimeout(() => this.monitorAudioLevel(), 100)
TickIntervalMs == 100
\* this.unmuteCooldown = 2 (seconds)
UnmuteCooldown == 2
\* this.volumeThreshold = 0.01, in hundredths
DefaultVolumeThreshold == 1
\* this.maxSilenceDuration = 3 (seconds)
DefaultSilenceDuration == 3
\* the double 0.1 is 1/10 + 4 * 2^-56 / 10
TenthErr == 4
\* values of the silenceDuration setting the model starts from (slider 1..10)
SilenceDurations == {1, 3}

CooldownMs == UnmuteCooldown * 1000
Levels == 0..MaxLevel

VARIABLES
    monitor,          \* the AudioLevelMonitor's fields
    control,          \* the page's microphone button: its true mute state
    pendingKeys,      \* synthesized Ctrl+D presses the page has not handled yet
    tickTimer,        \* ms until the pending setTimeout callback is due (<= 0: due)
    hist,             \* history the properties speak of (no effect on the program)
    last,             \* what the last step did
    life,             \* the monitor's life cycle: flags, audio context, timers, inits
    parts             \* the extension's other parts: the background service's stats

vars == <<monitor, control, pendingKeys, tickTimer, hist, last, life, parts>>

\* ------------------------------------------------ IEEE-754 "+= 0.1"
Pow2(j) == CASE j = 0 -> 1 [] j = 1 -> 2 [] j = 2 -> 4 [] j = 3 -> 8 [] j = 4 -> 16
             [] j = 5 -> 32 [] j = 6 -> 64 [] j = 7 -> 128 [] j = 8 -> 256

\* 2^e mod 10
Pow2Mod10(e) == IF e = 0 THEN 1
                ELSE CASE e % 4 = 0 -> 6 [] e % 4 = 1 -> 2 [] e % 4 = 2 -> 4 [] e % 4 = 3 -> 8

\* n/10 + e*2^-56/10 >= num/den, for a power of two num/den (e is tiny)
GeqPow2(n, e, num, den) ==
    \/ n * den > 10 * num
    \/ n * den = 10 * num /\ e >= 0

\* the exact sum lies in [2^k, 2^(k+1)); its unit in the last place is 2^(k-52),
\* that is 2^j * 2^-56 with j = k + 4
UlpExp(n, e) ==
    IF GeqPow2(n, e, 8, 1) THEN 7
    ELSE IF GeqPow2(n, e, 4, 1) THEN 6
    ELSE IF GeqPow2(n, e, 2, 1) THEN 5
    ELSE IF GeqPow2(n, e, 1, 1) THEN 4
    ELSE IF GeqPow2(n, e, 1, 2) THEN 3
    ELSE IF GeqPow2(n, e, 1, 4) THEN 2
    ELSE IF GeqPow2(n, e, 1, 8) THEN 1
    ELSE 0

\* s + 0.1 in double arithmetic: the exact sum rounded to the nearest multiple of
\* its unit in the last place, ties to the even multiple
AddTenth(s) ==
    LET n == s.ticks + 1
        e == s.err + TenthErr
        j == UlpExp(n, e)
        m == 10 * Pow2(j)
        r == (Pow2(j) * ((n * Pow2Mod10(56 - j)) % 10) + e) % m
        r2 == (Pow2(j + 1) * ((n * Pow2Mod10(55 - j)) % 10) + e) % (2 * m)
        down == [ticks |-> n, err |-> e - r]
        up == [ticks |-> n, err |-> e + (m - r)]
    IN  IF 2 * r < m THEN down
        ELSE IF 2 * r > m THEN up
        ELSE IF r2 < m THEN down ELSE up

Zero == [ticks |-> 0, err |-> 0]

\* silenceDuration >= maxSilenceDuration, the latter an integer (parseInt)
GeqSeconds(s, secs) ==
    \/ s.ticks > 10 * secs
    \/ s.ticks = 10 * secs /\ s.err >= 0

\* ---------------------------------------------------------- the clock
Saturate(ms) == IF ms > CooldownMs THEN CooldownMs ELSE ms

\* const isInCooldown = timeSinceLastUnmute < this.unmuteCooldown
InCooldown(since) == since < CooldownMs

\* (mutant) the tie counts as silence
IsSilenceOrEqual(averageVolume, threshold) == averageVolume <= threshold

\* averageVolume < this.volumeThreshold
IsSilence(averageVolume, threshold) == averageVolume < threshold

\* ------------------------------------------------- mute-state reconciler
\* the two tests that record a manual unmute: the control reads unmuted while the
\* belief (isMuted) or the previous reading (lastMuteState) is muted
ManualUnmuteDetected(m, found, isActuallyMuted) ==
    /\ found
    /\ ~isActuallyMuted
    /\ m.isMuted \/ m.lastMuteState

\* (mutant) the reconciler follows the control but records no unmute time
CheckMuteStateNoStamp(m, found, isActuallyMuted) ==
    IF ~found THEN m
    ELSE [m EXCEPT !.isMuted = isActuallyMuted,
                   !.originalMuteState =
                       IF isActuallyMuted # m.isMuted THEN isActuallyMuted ELSE @,
                   !.lastMuteState = isActuallyMuted]

\* checkMuteState(): found is whether findMuteButton() returned a button,
\* isActuallyMuted what isButtonMuted() reads from it
CheckMuteState(m, found, isActuallyMuted) ==
    IF ~found THEN m
    ELSE
        LET m1 == IF isActuallyMuted # m.isMuted
                  THEN [m EXCEPT !.sinceLastUnmute =
                                     IF ~isActuallyMuted /\ m.isMuted THEN 0 ELSE @,
                                 !.isMuted = isActuallyMuted,
                                 !.originalMuteState = isActuallyMuted]
                  ELSE m
        IN  IF isActuallyMuted # m1.lastMuteState
            THEN [m1 EXCEPT !.sinceLastUnmute =
                                IF ~isActuallyMuted /\ m1.lastMuteState THEN 0 ELSE @,
                            !.lastMuteState = isActuallyMuted]
            ELSE m1

\* ------------------------------------------------------ action dispatcher
\* a call of autoMute() or autoUnmute() that does nothing
NoDispatch(m) == [m |-> m, action |-> "none", event |-> "none"]

\* autoMute(): the result is the monitor after it, the action dispatched and
\* the type of the message handed to chrome.runtime.sendMessage
AutoMute(m) ==
    IF ~m.isMuted
    THEN [m |-> [m EXCEPT !.originalMuteState = m.isMuted, !.isMuted = TRUE],
          action |-> "mute", event |-> "AUTO_MUTED"]
    ELSE NoDispatch(m)

\* (mutant) automatic unmute is held back during the cooldown
AutoUnmuteUnlessCooldown(m) ==
    IF m.isMuted /\ ~InCooldown(m.sinceLastUnmute)
    THEN [m |-> [m EXCEPT !.isMuted = FALSE, !.sinceLastUnmute = 0],
          action |-> "unmute", event |-> "AUTO_UNMUTED"]
    ELSE NoDispatch(m)

\* (mutant) automatic unmute leaves the last-unmute time alone
AutoUnmuteNoStamp(m) ==
    IF m.isMuted
    THEN [m |-> [m EXCEPT !.isMuted = FALSE],
          action |-> "unmute", event |-> "AUTO_UNMUTED"]
    ELSE NoDispatch(m)

\* autoUnmute()
AutoUnmute(m) ==
    IF m.isMuted
    THEN [m |-> [m EXCEPT !.isMuted = FALSE, !.sinceLastUnmute = 0],
          action |-> "unmute", event |-> "AUTO_UNMUTED"]
    ELSE NoDispatch(m)

\* simulateMuteKeyFallback(): the keydowns it delivers.  keys says how the
\* synthesis of the key events goes: "ok", "fallback" (the first attempt throws
\* while it builds its events, the second one works) or "keys" (both throw; the
\* second error is caught and logged)
SimulateMuteKeyFallback(keys) == IF keys = "keys" THEN 0 ELSE 1

\* simulateMuteKey(): the keydowns it delivers, its own or the fallback's
SimulateMuteKey(keys) ==
    IF keys \in {"fallback", "keys"} THEN SimulateMuteKeyFallback(keys) ELSE 1

\* the Ctrl+D keydowns that reach the page when the key events can be built
KeysSent(action) == IF action = "none" THEN 0 ELSE SimulateMuteKey("ok")

\* the keydowns of a dispatch, whatever happens to the key events
KeysDelivered(action, read) == IF action = "none" THEN 0 ELSE SimulateMuteKey(read)

\* the message that reaches the background script: none when
\* chrome.runtime.sendMessage throws ("notify")
Emitted(event, read) == IF read = "notify" THEN "none" ELSE event

\* -------------------------------------------------------- decision engine
\* (mutant) the cooldown is not consulted
ShouldMuteIgnoringCooldown(m) ==
    /\ GeqSeconds(m.silenceDuration, m.maxSilenceDuration)
    /\ ~m.isMuted

\* (mutant) the mute comes one tick before the silence is long enough
ShouldMuteEarly(m) ==
    /\ m.silenceDuration.ticks + 1 >= 10 * m.maxSilenceDuration
    /\ ~m.isMuted
    /\ ~InCooldown(m.sinceLastUnmute)

\* this.silenceDuration >= this.maxSilenceDuration && !this.isMuted && !isInCooldown
ShouldMute(m) ==
    /\ GeqSeconds(m.silenceDuration, m.maxSilenceDuration)
    /\ ~m.isMuted
    /\ ~InCooldown(m.sinceLastUnmute)

\* (mutant) a sub-threshold tick inside the cooldown restarts the silence timer
DecideResettingInCooldown(m, averageVolume) ==
    IF IsSilence(averageVolume, m.volumeThreshold)
    THEN LET m1 == [m EXCEPT !.silenceDuration =
                                 IF InCooldown(m.sinceLastUnmute) THEN Zero
                                 ELSE AddTenth(@)]
         IN  IF ShouldMute(m1) THEN AutoMute(m1) ELSE NoDispatch(m1)
    ELSE LET m1 == [m EXCEPT !.silenceDuration = Zero]
         IN  IF m1.isMuted THEN AutoUnmute(m1) ELSE NoDispatch(m1)

\* the silence/speech branch of monitorAudioLevel()
Decide(m, averageVolume) ==
    IF IsSilence(averageVolume, m.volumeThreshold)
    THEN LET m1 == [m EXCEPT !.silenceDuration = AddTenth(@)]
         IN  IF ShouldMute(m1) THEN AutoMute(m1) ELSE NoDispatch(m1)
    ELSE LET m1 == [m EXCEPT !.silenceDuration = Zero]
         IN  IF m1.isMuted THEN AutoUnmute(m1) ELSE NoDispatch(m1)

\* ----------------------------------------------------------- life cycle
\* life of a monitor whose init() has completed and that nothing has stopped
Running ==
    [enabled |-> TRUE, isMonitoring |-> TRUE, audioContext |-> TRUE,
     analyser |-> TRUE, dataArray |-> TRUE, openContexts |-> 1,
     timers |-> <<"tick">>, settingsReads |-> 0, mediaRequests |-> 0,
     watching |-> TRUE, counted |-> FALSE, watchers |-> 0]

\* life after the constructor: nothing acquired, init() waiting for getSettings()
Constructed ==
    [enabled |-> FALSE, isMonitoring |-> FALSE, audioContext |-> FALSE,
     analyser |-> FALSE, dataArray |-> FALSE, openContexts |-> 0,
     timers |-> <<>>, settingsReads |-> 1, mediaRequests |-> 0,
     watching |-> FALSE, counted |-> FALSE, watchers |-> 0]

\* pending timers are kept in the order in which they are due
TickTimers(timers) == Cardinality({i \in DOMAIN timers : timers[i] = "tick"})
InitTimers(timers) == Cardinality({i \in DOMAIN timers : timers[i] = "init"})
LastTickTimer(timers) ==
    IF TickTimers(timers) = 0 THEN 0
    ELSE CHOOSE i \in DOMAIN timers :
           /\ timers[i] = "tick"
           /\ \A j \in DOMAIN timers : timers[j] = "tick" => j <= i
InsertAt(timers, pos, t) ==
    SubSeq(timers, 1, pos - 1) \o <<t>> \o SubSeq(timers, pos, Len(timers))

\* init() calls under way: waiting for their 500 ms timer, for getSettings() or
\* for getUserMedia()
InitsAlive(l) == InitTimers(l.timers) + l.settingsReads + l.mediaRequests

\* stopMonitoring(): the flag goes down, the context in this.audioContext is
\* closed, the handles are dropped; no timer is cleared
StopMonitoring(l) ==
    [l EXCEPT !.isMonitoring = FALSE,
              !.openContexts = IF l.audioContext THEN @ - 1 ELSE @,
              !.audioContext = FALSE, !.analyser = FALSE]

\* (mutant) a restart that stops and never calls init()
RestartWithoutInit(l) == StopMonitoring(l)

\* restartMonitoring(): stop, then init() from a 500 ms timer, due after every
\* timer that is pending now
RestartMonitoring(l) ==
    [StopMonitoring(l) EXCEPT !.timers = Append(@, "init")]

\* setupAudioContext(stream): a new context replaces what this.audioContext
\* holds; nothing is closed
SetupAudioContext(l) ==
    [l EXCEPT !.openContexts = @ + 1, !.audioContext = TRUE, !.analyser = TRUE,
              !.dataArray = TRUE]

\* setupMeetStateWatcher(): one more visibilitychange listener and one more
\* URL-watcher interval; watching says that there is one, watchers how many
\* (followed where counted says so)
SetupMeetStateWatcher(l) ==
    [l EXCEPT !.watching = TRUE,
              !.watchers = IF l.counted THEN @ + 1 ELSE @]

\* (mutant) monitorAudioLevel() without the test of isMonitoring
OutcomeIgnoringFlag(l, read) ==
    IF ~l.enabled THEN "stale"
    ELSE IF ~l.analyser \/ ~l.dataArray THEN "noAnalyser"
    ELSE IF read = "sample" THEN "sampleError"
    ELSE IF read = "notify" THEN "sendError"
    ELSE "ran"

\* (mutant) monitorAudioLevel() without the test of enabled
OutcomeIgnoringEnabled(l, read) ==
    IF ~l.isMonitoring THEN "stale"
    ELSE IF ~l.analyser \/ ~l.dataArray THEN "noAnalyser"
    ELSE IF read = "sample" THEN "sampleError"
    ELSE IF read = "notify" THEN "sendError"
    ELSE "ran"

\* how a call of monitorAudioLevel() goes: it returns at once ("stale"), finds
\* the analyser gone, fails to read the sample, runs its body up to the
\* sendMessage of a dispatch that throws ("sendError"), or runs its body
Outcome(l, read) ==
    IF ~l.isMonitoring \/ ~l.enabled THEN "stale"
    ELSE IF ~l.analyser \/ ~l.dataArray THEN "noAnalyser"
    ELSE IF read = "sample" THEN "sampleError"
    ELSE IF read = "notify" THEN "sendError"
    ELSE "ran"

\* (mutant) a failed read that re-arms the timer and restarts nothing
AfterTickKeepingLoop(l, outcome, pos) ==
    IF outcome = "stale" THEN l
    ELSE [l EXCEPT !.timers = InsertAt(@, pos, "tick")]

\* what the call leaves of life: nothing, a restart, or the next 100 ms timer,
\* due after the tick timers that are pending and before or after the init timers
AfterTick(l, outcome, pos) ==
    IF outcome = "stale" THEN l
    ELSE IF outcome = "ran" THEN [l EXCEPT !.timers = InsertAt(@, pos, "tick")]
    ELSE RestartMonitoring(l)

\* ------------------------------------------------------------- the state
\* what a step leaves in last: the operation, the action it dispatched and the
\* control's true state when it ran
Step(op, action) ==
    [op |-> op, action |-> action, averageVolume |-> 0, found |-> FALSE,
     truth |-> IF op = "debug" THEN control.muted ELSE FALSE,
     believed |-> FALSE, inCooldown |-> FALSE, detected |-> FALSE,
     manual |-> FALSE, read |-> "ok", event |-> "none"]

\* the fields the constructor sets, with silenceDuration seconds to the mute
NewMonitor(d) ==
    [volumeThreshold |-> DefaultVolumeThreshold,
     silenceDuration |-> Zero,
     maxSilenceDuration |-> d,
     isMuted |-> FALSE,
     originalMuteState |-> FALSE,
     sinceLastUnmute |-> CooldownMs,
     lastMuteState |-> FALSE]

\* what chrome.storage.sync holds of the settings the model follows: the
\* defaults the options page and getSettings() name
DefaultSettings ==
    [volumeThreshold |-> DefaultVolumeThreshold,
     silenceDuration |-> DefaultSilenceDuration,
     monitoringInterval |-> TickIntervalMs]

NoHistory ==
    [sinceUnmute |-> CooldownMs, unmuteKind |-> "none",
     observed |-> FALSE, sysUnmute |-> FALSE, clean |-> TRUE,
     acted |-> FALSE, acquisitionFailed |-> FALSE,
     stored |-> DefaultSettings, timed |-> FALSE, sinceReset |-> 0,
     quietTicks |-> 0, mutedHandled |-> 0, unmutedHandled |-> 0]

\* this.stats as the constructor of BackgroundService leaves it
NoStats == [autoMuteCount |-> 0, autoUnmuteCount |-> 0, lastActivity |-> "null"]

\* the defaults the documentation gives
Documented ==
    [volumeThreshold |-> DefaultVolumeThreshold,
     silenceDuration |-> DefaultSilenceDuration,
     enabled |-> TRUE]

\* chrome.storage.sync before anything is stored: every key is absent ({}); a
\* stored key carries its value ({v})
NoStorage ==
    [volumeThreshold |-> {}, silenceDuration |-> {}, enabled |-> {},
     monitoringInterval |-> {}, sensitivityMode |-> {}]

\* this.settings as the constructor of PopupController leaves it
PopupSettings ==
    [enabled |-> TRUE, volumeThreshold |-> DefaultVolumeThreshold,
     silenceDuration |-> DefaultSilenceDuration]

\* this.settings as the constructor of OptionsController leaves it
OptionsSettings ==
    [enabled |-> TRUE, volumeThreshold |-> DefaultVolumeThreshold,
     silenceDuration |-> DefaultSilenceDuration,
     monitoringInterval |-> TickIntervalMs, sensitivityMode |-> "normal"]

\* the settings of the content script as the constructor of AudioMonitor
\* leaves them (enabled is not set before init() reads the storage)
ContentSettings ==
    [volumeThreshold |-> DefaultVolumeThreshold,
     maxSilenceDuration |-> DefaultSilenceDuration,
     enabled |-> TRUE]

\* the other parts of the extension when it starts
NoParts ==
    [stats |-> NoStats, storage |-> NoStorage, popup |-> PopupSettings,
     options |-> OptionsSettings, content |-> ContentSettings]

\* the constructor, then init() with the settings read from storage
Init ==
    /\ \E d \in SilenceDurations :
         /\ monitor = NewMonitor(d)
         /\ hist = [NoHistory EXCEPT !.stored.silenceDuration = d]
    /\ control \in [muted : BOOLEAN]
    /\ pendingKeys = 0
    /\ tickTimer = 0
    /\ parts = NoParts
    /\ last = Step("env", "none")
    /\ life = Running

\* hist: sinceUnmute is the time since the monitor last recorded an unmute and
\* unmuteKind what that unmute was ("manual": the control went unmuted by hand,
\* "auto": the monitor dispatched it, "unseen": a mute of the monitor's never
\* showed); observed is the control's last reading, sysUnmute whether the monitor
\* dispatched an unmute since; clean says that every tick since the silence timer
\* was last 0 read the control unmuted outside the cooldown, toggleMute unused;
\* acted says that the tick loop dispatched an action since the control's reading
\* last changed; stored is what storage holds of the settings; sinceReset is the
\* wall-clock time since silenceDuration was last set to 0 (by the constructor
\* or by a tick that heard speech), followed where timed says so; quietTicks
\* counts the sub-threshold ticks since the last tick at or above the threshold;
\* mutedHandled and unmutedHandled count the AUTO_MUTED and AUTO_UNMUTED
\* messages the background service has handled since the last RESET_STATS.
\* What a dispatched action leaves in hist:
Dispatched(h, action) ==
    IF action = "unmute"
    THEN [h EXCEPT !.sinceUnmute = 0, !.unmuteKind = "auto", !.sysUnmute = TRUE]
    ELSE h

\* hist.acted once the tick has read the control: a reading that differs from
\* the one before is a change of the observed state
ActedSinceChange(h, found, isActuallyMuted) ==
    IF found /\ isActuallyMuted # h.observed THEN FALSE ELSE h.acted

\* the control went from muted to unmuted between two readings although the
\* monitor dispatched no unmute in between
ManualUnmute(h, found, isActuallyMuted) ==
    found /\ ~isActuallyMuted /\ h.observed /\ ~h.sysUnmute

\* the body of monitorAudioLevel() once the sample is read: reconcile, decide,
\* dispatch.  read says how the reading of the control went: "ok", "find"
\* (findMuteButton threw: checkMuteState catches it and does nothing) or "state"
\* (isButtonMuted caught an error of its own and returned false); or how the
\* dispatch went: "fallback", "keys" (see SimulateMuteKey) or "notify"
\* (chrome.runtime.sendMessage threw).  track says whether the history of the
\* ticks is kept in hist.
TickBody(op, averageVolume, read, buttonFound, track) ==
    /\ LET found == buttonFound /\ read # "find"
           isActuallyMuted == IF read = "state" THEN FALSE ELSE control.muted
           detected == ManualUnmuteDetected(monitor, found, isActuallyMuted)
           m1 == CheckMuteState(monitor, found, isActuallyMuted)
           d == Decide(m1, averageVolume)
           h1 == [hist EXCEPT
                    !.sinceUnmute = IF detected THEN 0 ELSE @,
                    !.unmuteKind =
                        IF ManualUnmute(hist, found, isActuallyMuted) THEN "manual"
                        ELSE IF detected /\ ~hist.sysUnmute THEN "unseen"
                        ELSE @,
                    !.observed = IF found THEN isActuallyMuted ELSE @,
                    !.sysUnmute = IF found THEN FALSE ELSE @,
                    !.sinceReset =
                        IF IsSilence(averageVolume, monitor.volumeThreshold)
                        THEN @ ELSE 0,
                    !.quietTicks =
                        IF IsSilence(averageVolume, monitor.volumeThreshold)
                        THEN @ + 1 ELSE 0,
                    !.acted = ActedSinceChange(hist, found, isActuallyMuted)
                              \/ d.action # "none",
                    !.clean =
                        IF IsSilence(averageVolume, monitor.volumeThreshold)
                        THEN /\ @
                             /\ found /\ ~isActuallyMuted
                             /\ ~InCooldown(m1.sinceLastUnmute)
                        ELSE TRUE]
       IN  /\ pendingKeys + KeysDelivered(d.action, read) <= MaxPendingKeys
           /\ monitor' = d.m
           /\ pendingKeys' = pendingKeys + KeysDelivered(d.action, read)
           /\ hist' = IF track THEN Dispatched(h1, d.action) ELSE hist
           /\ last' = [op |-> op, action |-> d.action,
                       averageVolume |-> averageVolume, found |-> found,
                       truth |-> isActuallyMuted, believed |-> m1.isMuted,
                       inCooldown |-> InCooldown(m1.sinceLastUnmute),
                       detected |-> detected,
                       manual |-> track /\ ManualUnmute(hist, found, isActuallyMuted),
                       read |-> read, event |-> Emitted(d.event, read)]

\* one run of monitorAudioLevel() of a monitor that runs undisturbed: sample,
\* reconcile, decide, dispatch, re-arm
Tick(averageVolume, found) ==
    /\ tickTimer <= 0
    /\ Outcome(life, "ok") = "ran"
    /\ IsSilence(averageVolume, monitor.volumeThreshold)
         => monitor.silenceDuration.ticks < MaxSilenceTicks
    /\ TickBody("tick", averageVolume, "ok", found, TRUE)
    /\ tickTimer' = TickIntervalMs
    /\ UNCHANGED <<control, life, parts>>

\* window.autoMuteDebug.toggleMute()
DebugToggleMute ==
    /\ LET d == IF monitor.isMuted THEN AutoUnmute(monitor) ELSE AutoMute(monitor)
       IN  /\ pendingKeys + KeysSent(d.action) <= MaxPendingKeys
           /\ monitor' = d.m
           /\ pendingKeys' = pendingKeys + KeysSent(d.action)
           /\ hist' = [Dispatched(hist, d.action) EXCEPT !.clean = FALSE]
           /\ last' = [Step("debug", d.action) EXCEPT !.event = d.event]
    /\ UNCHANGED <<control, tickTimer, life, parts>>

\* ------------------------------------------------------- the environment
\* 100 ms pass; Date.now() - lastUnmuteTime grows with the clock
Advance ==
    /\ tickTimer > -(MaxLate * TickIntervalMs)
    /\ tickTimer' = tickTimer - TickIntervalMs
    /\ monitor' = [monitor EXCEPT !.sinceLastUnmute = Saturate(@ + TickIntervalMs)]
    /\ hist' = [hist EXCEPT !.sinceUnmute = Saturate(@ + TickIntervalMs),
                            !.sinceReset = IF hist.timed THEN @ + TickIntervalMs
                                           ELSE @]
    /\ last' = Step("env", "none")
    /\ UNCHANGED <<control, pendingKeys, life, parts>>

\* the user clicks the microphone button or presses the shortcut
UserToggle ==
    /\ control' = [control EXCEPT !.muted = ~@]
    /\ last' = Step("env", "none")
    /\ UNCHANGED <<monitor, pendingKeys, tickTimer, hist, life, parts>>

\* the page handles one synthesized key press: the microphone toggles
ControlApply ==
    /\ pendingKeys > 0
    /\ pendingKeys' = pendingKeys - 1
    /\ control' = [control EXCEPT !.muted = ~@]
    /\ last' = Step("env", "none")
    /\ UNCHANGED <<monitor, tickTimer, hist, life, parts>>

\* the page ignores one synthesized key press
ControlIgnore ==
    /\ pendingKeys > 0
    /\ pendingKeys' = pendingKeys - 1
    /\ last' = Step("env", "none")
    /\ UNCHANGED <<monitor, control, tickTimer, hist, life, parts>>

Next ==
    \/ \E averageVolume \in Levels, found \in BOOLEAN : Tick(averageVolume, found)
    \/ DebugToggleMute
    \/ Advance
    \/ UserToggle
    \/ ControlApply
    \/ ControlIgnore

Spec == Init /\ [][Next]_vars

\* ------------------------------------- the life cycle as a state machine
\* Start, stop and restart of the monitor.  Timers fire in the order in which
\* they are due (life.timers); how long the promises of getSettings() and
\* getUserMedia() take is up to the environment.  The clock is left out: no
\* cooldown runs out here, and the silence never lasts long enough for a mute.
\* Storage holds the default silenceDuration; enabled is either.
Reads == {"ok", "sample", "find", "state", "fallback", "keys", "notify"}
DispatchReads == {"fallback", "keys", "notify"}
LifeLevels == 0..DefaultVolumeThreshold
\* the inputs of one call of monitorAudioLevel(): the sample, how the reads
\* and the dispatch go, whether the button is there.  A failed sample read
\* leaves no sample; the button is there when isButtonMuted fails on it.
TickInputs ==
    {in \in [averageVolume : LifeLevels, read : Reads, found : BOOLEAN] :
        /\ in.read = "sample" => in.averageVolume = 0 /\ ~in.found
        /\ in.read = "find" => ~in.found
        /\ in.read = "state" => in.found}

\* the state the constructor leaves: init() has been called and waits
LifeInit ==
    /\ monitor = NewMonitor(DefaultSilenceDuration)
    /\ control \in [muted : BOOLEAN]
    /\ pendingKeys = 0
    /\ tickTimer = 0
    /\ parts = NoParts
    /\ hist = NoHistory
    /\ last = Step("env", "none")
    /\ life = Constructed

\* what a call of monitorAudioLevel() is called in last
OpName(entry, outcome) ==
    IF outcome \in {"ran", "sendError"} THEN entry
    ELSE IF outcome = "noAnalyser" THEN "noAnalyser"
    ELSE IF entry = "tick"
         THEN (IF outcome = "stale" THEN "stale" ELSE "tickError")
         ELSE (IF outcome = "stale" THEN "acquired" ELSE "startError")

\* what a call of monitorAudioLevel() does to the monitor's fields
MonitorAudioLevel(entry, outcome, averageVolume, read, found) ==
    IF outcome \in {"ran", "sendError"}
    THEN /\ IsSilence(averageVolume, monitor.volumeThreshold)
              => monitor.silenceDuration.ticks < MaxLifeSilenceTicks
         /\ TickBody(entry, averageVolume, read, found, FALSE)
         /\ read \in DispatchReads => last'.action # "none"
    ELSE /\ read \notin DispatchReads
         /\ last' = [Step(OpName(entry, outcome), "none") EXCEPT !.read = read]
         /\ UNCHANGED <<monitor, pendingKeys, hist>>

\* where the next tick timer can go among the pending timers
TickPositions(timers, outcome) ==
    IF outcome = "ran" THEN (LastTickTimer(timers) + 1)..(Len(timers) + 1)
    ELSE {1}

\* init(), first part: getSettings() has answered
InitSettings(d, en) ==
    /\ life.settingsReads > 0
    /\ monitor' = [monitor EXCEPT !.volumeThreshold = DefaultVolumeThreshold,
                                  !.maxSilenceDuration = d]
    /\ LET l1 == [life EXCEPT !.settingsReads = @ - 1, !.enabled = en]
       IN  life' = IF ~en THEN l1
                   ELSE IF l1.isMonitoring /\ l1.audioContext /\ l1.analyser THEN l1
                   ELSE [l1 EXCEPT !.mediaRequests = @ + 1]
    /\ last' = Step("settings", "none")
    /\ UNCHANGED <<control, pendingKeys, tickTimer, hist, parts>>

\* init(), second part: getUserMedia() has answered with a stream;
\* setupAudioContext, startMonitoring (with the first monitorAudioLevel() in
\* it), setupMeetStateWatcher
InitAcquired(averageVolume, read, found) ==
    /\ life.mediaRequests > 0
    /\ life.openContexts < MaxInits
    /\ TickTimers(life.timers) < MaxInits
    /\ life.counted => life.watchers < MaxWatchers
    /\ LET l1 == SetupAudioContext([life EXCEPT !.mediaRequests = @ - 1])
           l2 == [l1 EXCEPT !.isMonitoring = TRUE]
           outcome == Outcome(l2, read)
       IN  IF l1.isMonitoring
           THEN /\ life' = SetupMeetStateWatcher(l1)
                /\ last' = Step("acquired", "none")
                /\ UNCHANGED <<monitor, pendingKeys, hist>>
           ELSE /\ \E pos \in TickPositions(l2.timers, outcome) :
                     life' = SetupMeetStateWatcher(AfterTick(l2, outcome, pos))
                /\ MonitorAudioLevel("start", outcome, averageVolume, read, found)
    /\ UNCHANGED <<control, tickTimer, parts>>

\* init(), second part: getUserMedia() has refused; the catch logs it
InitDenied ==
    /\ life.mediaRequests > 0
    /\ life' = [life EXCEPT !.mediaRequests = @ - 1]
    /\ hist' = [hist EXCEPT !.acquisitionFailed =
                    IF InitsAlive(life') = 0 /\ ~life.isMonitoring THEN TRUE ELSE @]
    /\ last' = Step("denied", "none")
    /\ UNCHANGED <<monitor, control, pendingKeys, tickTimer, parts>>

\* the 500 ms timer of restartMonitoring() calls init()
InitTimer ==
    /\ life.timers # <<>>
    /\ Head(life.timers) = "init"
    /\ life' = [life EXCEPT !.timers = Tail(@), !.settingsReads = @ + 1]
    /\ last' = Step("initTimer", "none")
    /\ UNCHANGED <<monitor, control, pendingKeys, tickTimer, hist, parts>>

\* a 100 ms timer calls monitorAudioLevel()
TickTimer(averageVolume, read, found) ==
    /\ life.timers # <<>>
    /\ Head(life.timers) = "tick"
    /\ LET l0 == [life EXCEPT !.timers = Tail(@)]
           outcome == Outcome(l0, read)
       IN  /\ outcome \notin {"ran", "stale"} => InitsAlive(l0) < MaxInits
           /\ \E pos \in TickPositions(l0.timers, outcome) :
                life' = AfterTick(l0, outcome, pos)
           /\ MonitorAudioLevel("tick", outcome, averageVolume, read, found)
    /\ UNCHANGED <<control, tickTimer, parts>>

\* a watcher that setupMeetStateWatcher() installed (the page became visible,
\* the URL changed) calls ensureMonitoring()
EnsureMonitoring ==
    /\ life.watching
    /\ life.enabled
    /\ ~life.isMonitoring \/ ~life.analyser
    /\ InitsAlive(life) < MaxInits
    /\ life' = RestartMonitoring(life)
    /\ last' = Step("ensure", "none")
    /\ UNCHANGED <<monitor, control, pendingKeys, tickTimer, hist, parts>>

\* (mutant) a restart that unmutes on the way
DebugRestartUnmuting ==
    /\ InitsAlive(life) < MaxInits
    /\ life' = RestartMonitoring(life)
    /\ monitor' = [monitor EXCEPT !.isMuted = FALSE]
    /\ hist' = [hist EXCEPT !.acquisitionFailed = FALSE]
    /\ last' = Step("debugRestart", "none")
    /\ UNCHANGED <<control, pendingKeys, tickTimer, parts>>

\* window.autoMuteDebug.restart()
DebugRestart ==
    /\ InitsAlive(life) < MaxInits
    /\ life' = RestartMonitoring(life)
    /\ hist' = [hist EXCEPT !.acquisitionFailed = FALSE]
    /\ last' = Step("debugRestart", "none")
    /\ UNCHANGED <<monitor, control, pendingKeys, tickTimer, parts>>

LifeNext ==
    \/ \E en \in BOOLEAN : InitSettings(DefaultSilenceDuration, en)
    \/ \E in \in TickInputs : InitAcquired(in.averageVolume, in.read, in.found)
    \/ InitDenied
    \/ InitTimer
    \/ \E in \in TickInputs : TickTimer(in.averageVolume, in.read, in.found)
    \/ EnsureMonitoring
    \/ DebugRestart
    \/ UserToggle
    \/ ControlApply

LifeSpec == LifeInit /\ [][LifeNext]_vars

\* --------------------------------------------- settings that change live
\* A running monitor whose settings the options page or the popup changes:
\* chrome.storage delivers every change to the onChanged listener.  The clock
\* is left out: ticks follow one another, tickTimer is the delay the last tick
\* gave to setTimeout, and no cooldown runs out.
\* values the pages store: the sliders' thresholds and durations (positive
\* numbers), the intervals of the sensitivity modes "normal" and "low"
ConfigThresholds == 1..MaxLevel
ConfigDurations == {1, 2}
ConfigIntervals == {TickIntervalMs, 2 * TickIntervalMs}

\* parseFloat(newValue) || 0.01 and parseInt(newValue) || 3 on a stored number:
\* 0 gives the default
ParseOr(newValue, default) == IF newValue = 0 THEN default ELSE newValue

\* a change record of chrome.storage: a key is absent ({}) or carries its new
\* value ({v})
NewValue(change) == CHOOSE v \in change : TRUE
Changes ==
    {c \in [volumeThreshold : {{}} \cup {{v} : v \in ConfigThresholds},
            silenceDuration : {{}} \cup {{v} : v \in ConfigDurations},
            monitoringInterval : {{}} \cup {{v} : v \in ConfigIntervals},
            enabled : {{}} \cup {{v} : v \in BOOLEAN}] :
        \E k \in DOMAIN c : c[k] # {}}

\* (mutant) a listener that restarts the silence timer when a setting changes
OnChangedResetting(m, changes) ==
    [m EXCEPT !.volumeThreshold =
                  IF changes.volumeThreshold # {}
                  THEN ParseOr(NewValue(changes.volumeThreshold), DefaultVolumeThreshold)
                  ELSE @,
              !.maxSilenceDuration =
                  IF changes.silenceDuration # {}
                  THEN ParseOr(NewValue(changes.silenceDuration), DefaultSilenceDuration)
                  ELSE @,
              !.silenceDuration = Zero]

\* the monitor's fields after the chrome.storage.onChanged listener
OnChanged(m, changes) ==
    [m EXCEPT !.volumeThreshold =
                  IF changes.volumeThreshold # {}
                  THEN ParseOr(NewValue(changes.volumeThreshold), DefaultVolumeThreshold)
                  ELSE @,
              !.maxSilenceDuration =
                  IF changes.silenceDuration # {}
                  THEN ParseOr(NewValue(changes.silenceDuration), DefaultSilenceDuration)
                  ELSE @]

\* what storage holds after the change
Store(stored, changes) ==
    [k \in DOMAIN stored |-> IF changes[k] # {} THEN NewValue(changes[k]) ELSE stored[k]]

\* a page stores settings; the listener of the content script runs
SettingsChanged(changes) ==
    /\ monitor' = OnChanged(monitor, changes)
    /\ life' = [life EXCEPT !.enabled = IF changes.enabled # {}
                                        THEN NewValue(changes.enabled) ELSE @]
    /\ hist' = [hist EXCEPT !.stored = Store(@, changes)]
    /\ last' = Step("settingsChanged", "none")
    /\ UNCHANGED <<control, pendingKeys, tickTimer, parts>>

ConfigInit ==
    /\ \E d \in ConfigDurations :
         /\ monitor = NewMonitor(d)
         /\ hist = [NoHistory EXCEPT !.stored.silenceDuration = d]
    /\ control \in [muted : BOOLEAN]
    /\ pendingKeys = 0
    /\ tickTimer = TickIntervalMs
    /\ parts = NoParts
    /\ last = Step("env", "none")
    /\ life = Running

\* the 100 ms timer calls monitorAudioLevel()
ConfigTick(averageVolume, found) ==
    /\ Outcome(life, "ok") = "ran"
    /\ IsSilence(averageVolume, monitor.volumeThreshold)
         => monitor.silenceDuration.ticks < MaxConfigSilenceTicks
    /\ TickBody("tick", averageVolume, "ok", found, FALSE)
    /\ tickTimer' = TickIntervalMs
    /\ UNCHANGED <<control, life, parts>>

ConfigNext ==
    \/ \E averageVolume \in Levels, found \in BOOLEAN : ConfigTick(averageVolume, found)
    \/ \E changes \in Changes : changes.enabled = {} /\ SettingsChanged(changes)
    \/ UserToggle
    \/ ControlApply

ConfigSpec == ConfigInit /\ [][ConfigNext]_vars

\* ------------------------------------------ recovery, as a fair behaviour
\* The life cycle of a session in which the claim's provisos hold: storage says
\* enabled, getUserMedia() grants the microphone, the first sample of a new
\* loop can be read, and nobody uses the debug console or the microphone
\* button.  Timers fire, promises settle and the page handles the keys it is
\* sent (weak fairness).  How the control is read makes no difference to the
\* life cycle: the reads of the control succeed here.
RecoveryInputs == {in \in TickInputs : in.read \in {"ok", "sample"}}
StartInputs == {in \in TickInputs : in.read = "ok"}

RecoveryNext ==
    \/ InitSettings(DefaultSilenceDuration, TRUE)
    \/ \E in \in StartInputs : InitAcquired(in.averageVolume, in.read, in.found)
    \/ InitTimer
    \/ \E in \in RecoveryInputs : TickTimer(in.averageVolume, in.read, in.found)
    \/ EnsureMonitoring
    \/ ControlApply

\* the inputs whose sample is at the threshold: no silence is counted
PlainInputs(inputs) == {in \in inputs : in.averageVolume = DefaultVolumeThreshold}

\* a due tick timer fires: the TickTimer disjunct of RecoveryNext, with the
\* inputs that count no silence named first (the same action; whether it is
\* enabled is then settled without the arithmetic of the silence timer)
TickFires ==
    \/ \E in \in PlainInputs(RecoveryInputs) :
         TickTimer(in.averageVolume, in.read, in.found)
    \/ \E in \in RecoveryInputs : TickTimer(in.averageVolume, in.read, in.found)

\* getUserMedia() answers: the InitAcquired disjunct of RecoveryNext, likewise
StartFires ==
    \/ \E in \in PlainInputs(StartInputs) :
         InitAcquired(in.averageVolume, in.read, in.found)
    \/ \E in \in StartInputs : InitAcquired(in.averageVolume, in.read, in.found)

RecoveryFairness ==
    /\ WF_vars(InitTimer)
    /\ WF_vars(TickFires)
    /\ WF_vars(InitSettings(DefaultSilenceDuration, TRUE))
    /\ WF_vars(StartFires)
    /\ WF_vars(ControlApply)

RecoverySpec == LifeInit /\ [][RecoveryNext]_vars /\ RecoveryFairness

\* ------------------------------------------- the enabled switch, live
\* A running monitor with a valid signal source whose enabled flag the popup
\* switches.  Reads succeed, so nothing restarts the monitor; the watchers of
\* setupMeetStateWatcher() fire when they like, timers fire and the page
\* handles its keys (weak fairness).
SwitchChanges == {c \in Changes : \A k \in DOMAIN c : k # "enabled" => c[k] = {}}

SwitchInit ==
    /\ monitor = NewMonitor(DefaultSilenceDuration)
    /\ control \in [muted : BOOLEAN]
    /\ pendingKeys = 0
    /\ tickTimer = 0
    /\ parts = NoParts
    /\ hist = NoHistory
    /\ last = Step("env", "none")
    /\ life = Running

\* a watcher calls ensureMonitoring() on a monitor that is monitoring and holds
\* its analyser: nothing is done
EnsureMonitoringIdle ==
    /\ life.watching
    /\ life.enabled
    /\ life.isMonitoring /\ life.analyser
    /\ last' = Step("ensureIdle", "none")
    /\ UNCHANGED <<monitor, control, pendingKeys, tickTimer, hist, life, parts>>

SwitchNext ==
    \/ \E in \in StartInputs : TickTimer(in.averageVolume, in.read, in.found)
    \/ \E changes \in SwitchChanges : SettingsChanged(changes)
    \/ EnsureMonitoringIdle
    \/ UserToggle
    \/ ControlApply

SwitchFairness ==
    /\ WF_vars(\E in \in StartInputs : TickTimer(in.averageVolume, in.read, in.found))
    /\ WF_vars(ControlApply)

SwitchSpec == SwitchInit /\ [][SwitchNext]_vars /\ SwitchFairness

\* ------------------------------------------- probing the button's state
\* isButtonMuted(button) as a function of the button.  A text is a sequence of
\* pieces, chosen so that every pattern of the code is a sequence of pieces and
\* String.includes is the search for a run of pieces.  The Japanese patterns
\* are written in Latin letters: "maikuwo" "ofu" / "onn" for the two microphone
\* labels, "myuuto" for mute and "myuuto" "kaijo" for unmute.
Pieces ==
    {"maikuwo", "ofu", "onn", "Mic ", "off", "on", "myuuto", "kaijo", "Mute", "Un", "mute"}
ClassNames == {<<"mute", "d">>, <<"un", "mute", "d">>, <<"mute">>, <<"btn">>}
AttributeValues == {"true", "false", ""}

\* sequences over S of length 0..n
SeqUpTo(S, n) == UNION {[1..k -> S] : k \in 0..n}

\* text.includes(pattern)
Includes(text, pattern) ==
    \E i \in 1..(Len(text) - Len(pattern) + 1) :
        SubSeq(text, i, i + Len(pattern) - 1) = pattern

\* the buttons the function is applied to; broken is a button on which
\* hasAttribute throws, which therefore shows no attribute, label or class
Buttons ==
    {b \in [dataIsMuted : {{}} \cup {{v} : v \in AttributeValues},
            ariaLabel : SeqUpTo(Pieces, MaxLabelLen),
            classList : SeqUpTo(ClassNames, MaxClasses),
            broken : BOOLEAN] :
        b.broken => b.dataIsMuted = {} /\ b.ariaLabel = <<>> /\ b.classList = <<>>}

\* the aria-label patterns, in the order of the code, with what each returns
LabelPatterns ==
    << [pattern |-> <<"maikuwo", "ofu">>, muted |-> FALSE],
       [pattern |-> <<"Mic ", "off">>, muted |-> FALSE],
       [pattern |-> <<"maikuwo", "onn">>, muted |-> TRUE],
       [pattern |-> <<"Mic ", "on">>, muted |-> TRUE],
       [pattern |-> <<"myuuto">>, muted |-> TRUE],
       [pattern |-> <<"Mute">>, muted |-> TRUE],
       [pattern |-> <<"myuuto", "kaijo">>, muted |-> FALSE],
       [pattern |-> <<"Un", "mute">>, muted |-> FALSE] >>

\* the patterns that ariaLabel includes
Matching(ariaLabel) ==
    {i \in DOMAIN LabelPatterns : Includes(ariaLabel, LabelPatterns[i].pattern)}

\* classList.some(cls => cls.includes("muted") || cls.includes("mute"))
ClassSaysMuted(classList) ==
    \E i \in DOMAIN classList :
        Includes(classList[i], <<"mute", "d">>) \/ Includes(classList[i], <<"mute">>)

\* (mutant) the label is consulted before the attribute
IsButtonMutedLabelFirst(button) ==
    IF button.broken THEN FALSE
    ELSE IF Matching(button.ariaLabel) # {}
    THEN LabelPatterns[CHOOSE i \in Matching(button.ariaLabel) :
                           \A j \in Matching(button.ariaLabel) : i <= j].muted
    ELSE IF button.dataIsMuted # {} THEN button.dataIsMuted = {"true"}
    ELSE ClassSaysMuted(button.classList)

\* isButtonMuted(button)
IsButtonMuted(button) ==
    IF button.broken THEN FALSE
    ELSE IF button.dataIsMuted # {} THEN button.dataIsMuted = {"true"}
    ELSE IF Matching(button.ariaLabel) # {}
    THEN LabelPatterns[CHOOSE i \in Matching(button.ariaLabel) :
                           \A j \in Matching(button.ariaLabel) : i <= j].muted
    ELSE ClassSaysMuted(button.classList)

\* the page shows some button
ProbeInit ==
    /\ monitor = NewMonitor(DefaultSilenceDuration)
    /\ control \in Buttons
    /\ pendingKeys = 0
    /\ tickTimer = 0
    /\ parts = NoParts
    /\ hist = NoHistory
    /\ last = [Step("env", "none") EXCEPT !.truth = FALSE]
    /\ life = Running

\* checkMuteState() asks isButtonMuted() about the button
Probe ==
    /\ last.op = "env"
    /\ last' = [last EXCEPT !.op = "probe", !.found = TRUE,
                            !.truth = IsButtonMuted(control)]
    /\ UNCHANGED <<monitor, control, pendingKeys, tickTimer, hist, life, parts>>

ProbeNext == Probe

ProbeSpec == ProbeInit /\ [][ProbeNext]_vars

\* ------------------------------------------ the silence timer and the clock
\* A running monitor whose ticks are at least one interval apart, with the
\* wall clock since silenceDuration was last 0 followed in hist.sinceReset.
\* startMonitoring() has just called monitorAudioLevel(): the first tick is due.
WallChanges ==
    {c \in Changes : \A k \in DOMAIN c : k # "volumeThreshold" => c[k] = {}}

WallInit ==
    /\ monitor = NewMonitor(DefaultSilenceDuration)
    /\ control \in [muted : BOOLEAN]
    /\ pendingKeys = 0
    /\ tickTimer = 0
    /\ parts = NoParts
    /\ hist = [NoHistory EXCEPT !.timed = TRUE]
    /\ last = Step("env", "none")
    /\ life = Running

\* the 100 ms timer (or startMonitoring) calls monitorAudioLevel()
WallTick(averageVolume, found) ==
    /\ tickTimer <= 0
    /\ Outcome(life, "ok") = "ran"
    /\ IsSilence(averageVolume, monitor.volumeThreshold)
         => monitor.silenceDuration.ticks < MaxWallSilenceTicks
    /\ TickBody("tick", averageVolume, "ok", found, TRUE)
    /\ tickTimer' = TickIntervalMs
    /\ UNCHANGED <<control, life, parts>>

WallNext ==
    \/ \E averageVolume \in Levels, found \in BOOLEAN : WallTick(averageVolume, found)
    \/ Advance
    \/ \E changes \in WallChanges : SettingsChanged(changes)
    \/ UserToggle
    \/ ControlApply

WallSpec == WallInit /\ [][WallNext]_vars

\* ------------------------------------------ the page-state watchers, counted
\* The life cycle with the watchers of setupMeetStateWatcher() counted: the
\* microphone is granted or refused, samples can fail, and the page becomes
\* visible when it likes.  One visibilitychange event calls every listener that
\* is registered, one after the other; each calls ensureMonitoring().
EnsureCall(l) ==
    IF l.enabled /\ (~l.isMonitoring \/ ~l.analyser) THEN RestartMonitoring(l)
    ELSE l

RECURSIVE EnsureCalls(_, _)
EnsureCalls(l, n) == IF n = 0 THEN l ELSE EnsureCalls(EnsureCall(l), n - 1)

WatchInit ==
    /\ monitor = NewMonitor(DefaultSilenceDuration)
    /\ control \in [muted : BOOLEAN]
    /\ pendingKeys = 0
    /\ tickTimer = 0
    /\ parts = NoParts
    /\ hist = NoHistory
    /\ last = Step("env", "none")
    /\ life = [Constructed EXCEPT !.counted = TRUE]

\* the page becomes visible
VisibilityChange ==
    /\ life.watchers > 0
    /\ InitsAlive(EnsureCalls(life, life.watchers)) <= MaxInits
    /\ life' = EnsureCalls(life, life.watchers)
    /\ last' = Step("visible", "none")
    /\ UNCHANGED <<monitor, control, pendingKeys, tickTimer, hist, parts>>

WatchNext ==
    \/ InitSettings(DefaultSilenceDuration, TRUE)
    \/ \E in \in StartInputs : InitAcquired(in.averageVolume, in.read, in.found)
    \/ InitDenied
    \/ InitTimer
    \/ \E in \in RecoveryInputs : TickTimer(in.averageVolume, in.read, in.found)
    \/ VisibilityChange
    \/ ControlApply

WatchSpec == WatchInit /\ [][WatchNext]_vars

\* ------------------------------------------ the debug userscript variant
\* The AudioLevelMonitor of the userscript: no cooldown, no restart, the button
\* is clicked instead of a key being sent.  seen is whether checkMuteState()
\* finds an element that marks the microphone as muted, button whether
\* autoMute()/autoUnmute() find a button to click.
UserscriptCheckMuteState(m, seen) == [m EXCEPT !.isMuted = seen]

UserscriptAutoMute(m, button) ==
    IF button /\ ~m.isMuted
    THEN [m |-> [m EXCEPT !.originalMuteState = m.isMuted],
          action |-> "mute", event |-> "none"]
    ELSE NoDispatch(m)

UserscriptAutoUnmute(m, button) ==
    IF button /\ m.isMuted
    THEN [m |-> m, action |-> "unmute", event |-> "none"]
    ELSE NoDispatch(m)

\* the silence/speech branch of the userscript's monitorAudioLevel()
UserscriptDecide(m, averageVolume, button) ==
    IF IsSilence(averageVolume, m.volumeThreshold)
    THEN LET m1 == [m EXCEPT !.silenceDuration = AddTenth(@)]
         IN  IF GeqSeconds(m1.silenceDuration, m1.maxSilenceDuration) /\ ~m1.isMuted
             THEN UserscriptAutoMute(m1, button)
             ELSE NoDispatch(m1)
    ELSE LET m1 == [m EXCEPT !.silenceDuration = Zero]
         IN  IF m1.isMuted /\ ~m1.originalMuteState
             THEN UserscriptAutoUnmute(m1, button)
             ELSE NoDispatch(m1)

\* how a call of the userscript's monitorAudioLevel() goes: it returns at
\* once, throws inside its try ("sample": getByteFrequencyData, "state":
\* checkMuteState), or runs its body
UserscriptOutcome(l, read) ==
    IF ~l.isMonitoring THEN "stale"
    ELSE IF read \in {"sample", "state"} THEN "error"
    ELSE "ran"

\* what the call leaves of life: the next 100 ms timer when the body ran; the
\* catch only logs
UserscriptAfterTick(l, outcome) ==
    IF outcome = "ran" THEN [l EXCEPT !.timers = Append(@, "tick")] ELSE l

UserscriptInputs ==
    {in \in [averageVolume : LifeLevels, read : {"ok", "sample", "state"},
             found : BOOLEAN] :
        in.read = "sample" => in.averageVolume = 0 /\ ~in.found}

\* one call of the userscript's monitorAudioLevel() on the monitor of life l
UserscriptMonitorAudioLevel(entry, l, in) ==
    LET outcome == UserscriptOutcome(l, in.read)
        m1 == UserscriptCheckMuteState(monitor, control.muted)
        d == UserscriptDecide(m1, in.averageVolume, in.found)
    IN  /\ life' = UserscriptAfterTick(l, outcome)
        /\ IF outcome = "ran"
           THEN /\ IsSilence(in.averageVolume, monitor.volumeThreshold)
                     => monitor.silenceDuration.ticks < MaxUserscriptSilenceTicks
                /\ monitor' = d.m
                /\ control' = IF d.action = "none" THEN control
                              ELSE [control EXCEPT !.muted = (d.action = "mute")]
                /\ last' = [Step(entry, d.action) EXCEPT
                               !.averageVolume = in.averageVolume,
                               !.found = in.found, !.truth = control.muted,
                               !.believed = m1.isMuted]
           ELSE /\ last' = [Step(OpName(entry, IF outcome = "stale" THEN "stale"
                                               ELSE "sampleError"), "none")
                               EXCEPT !.read = in.read]
                /\ UNCHANGED <<monitor, control>>
        /\ UNCHANGED <<pendingKeys, tickTimer, hist, parts>>

\* the constructor has loaded the settings and called init(), which waits for
\* getUserMedia()
UserscriptInit ==
    /\ \E d \in SilenceDurations : monitor = NewMonitor(d)
    /\ control \in [muted : BOOLEAN]
    /\ pendingKeys = 0
    /\ tickTimer = 0
    /\ parts = NoParts
    /\ hist = NoHistory
    /\ last = Step("env", "none")
    /\ life = [Constructed EXCEPT !.enabled = TRUE, !.settingsReads = 0,
                                  !.mediaRequests = 1]

\* init(): getUserMedia() has answered; setupAudioContext, startMonitoring
\* with the first monitorAudioLevel() in it
UserscriptInitAcquired(in) ==
    /\ life.mediaRequests > 0
    /\ UserscriptMonitorAudioLevel("start",
           [SetupAudioContext([life EXCEPT !.mediaRequests = @ - 1])
               EXCEPT !.isMonitoring = TRUE], in)

\* a 100 ms timer calls monitorAudioLevel()
UserscriptTickTimer(in) ==
    /\ life.timers # <<>>
    /\ Head(life.timers) = "tick"
    /\ UserscriptMonitorAudioLevel("tick", [life EXCEPT !.timers = Tail(@)], in)

UserscriptNext ==
    \/ \E in \in UserscriptInputs : UserscriptInitAcquired(in)
    \/ \E in \in UserscriptInputs : UserscriptTickTimer(in)
    \/ UserToggle

\* timers fire and promises settle
UserscriptFairness ==
    /\ WF_vars(\E in \in UserscriptInputs : UserscriptInitAcquired(in))
    /\ WF_vars(\E in \in UserscriptInputs : UserscriptTickTimer(in))

UserscriptSpec == UserscriptInit /\ [][UserscriptNext]_vars /\ UserscriptFairness

\* ------------------------------------------ the background service's stats
\* BackgroundService handles the messages that reach chrome.runtime.onMessage,
\* one at a time, of the types the content script and the popup send and of
\* one type it does not know.
MessageTypes ==
    {"AUTO_MUTED", "AUTO_UNMUTED", "GET_STATS", "RESET_STATS", "SETTINGS_UPDATE"}

\* handleAutoMuted(): lastActivity becomes the time of the message
HandleAutoMuted(stats) ==
    [stats EXCEPT !.autoMuteCount = @ + 1, !.lastActivity = "time"]

\* handleAutoUnmuted()
HandleAutoUnmuted(stats) ==
    [stats EXCEPT !.autoUnmuteCount = @ + 1, !.lastActivity = "time"]

\* resetStats()
ResetStats(stats) == NoStats

\* (mutant) an unmute is counted as a mute
HandleMessageMiscounting(stats, type) ==
    CASE type \in {"AUTO_MUTED", "AUTO_UNMUTED"} -> HandleAutoMuted(stats)
      [] type = "RESET_STATS" -> ResetStats(stats)
      [] OTHER -> stats

\* handleMessage(message, sender, sendResponse): this.stats after it
HandleMessage(stats, type) ==
    CASE type = "AUTO_MUTED" -> HandleAutoMuted(stats)
      [] type = "AUTO_UNMUTED" -> HandleAutoUnmuted(stats)
      [] type = "GET_STATS" -> stats
      [] type = "RESET_STATS" -> ResetStats(stats)
      [] OTHER -> stats

\* what the message leaves of the counts the properties speak of
Handled(h, type) ==
    CASE type = "AUTO_MUTED" -> [h EXCEPT !.mutedHandled = @ + 1]
      [] type = "AUTO_UNMUTED" -> [h EXCEPT !.unmutedHandled = @ + 1]
      [] type = "RESET_STATS" -> [h EXCEPT !.mutedHandled = 0, !.unmutedHandled = 0]
      [] OTHER -> h

StatsInit ==
    /\ monitor = NewMonitor(DefaultSilenceDuration)
    /\ control = [muted |-> FALSE]
    /\ pendingKeys = 0
    /\ tickTimer = 0
    /\ parts = NoParts
    /\ hist = NoHistory
    /\ last = Step("env", "none")
    /\ life = Running

\* chrome.runtime.onMessage delivers a message
OnMessage(type) ==
    /\ type = "AUTO_MUTED" => hist.mutedHandled < MaxMessages
    /\ type = "AUTO_UNMUTED" => hist.unmutedHandled < MaxMessages
    /\ parts' = [parts EXCEPT !.stats = HandleMessage(@, type)]
    /\ hist' = Handled(hist, type)
    /\ last' = [Step("message", "none") EXCEPT !.event = type]
    /\ UNCHANGED <<monitor, control, pendingKeys, tickTimer, life>>

StatsNext == \E type \in MessageTypes : OnMessage(type)

StatsSpec == StatsInit /\ [][StatsNext]_vars

\* ------------------------------------------------- the settings' defaults
\* The background service, the content script, the popup and the options page
\* share chrome.storage.sync; each of them supplies defaults of its own.
\* Thresholds are in hundredths, as everywhere.

\* the values the threshold sliders are moved to
SliderThresholds == {DefaultVolumeThreshold, 2}
\* the options of the sensitivity select
SensitivityModes == {"high", "low", "normal", "custom"}

\* chrome.storage.sync.get(defaults, callback): the stored value of every key
\* asked for, the default where the key is absent
StorageGet(storage, defaults) ==
    [k \in DOMAIN defaults |->
        IF storage[k] # {} THEN NewValue(storage[k]) ELSE defaults[k]]

\* chrome.storage.sync.set(items)
StorageSet(storage, items) ==
    [k \in DOMAIN storage |->
        IF k \in DOMAIN items THEN {items[k]} ELSE storage[k]]

\* handleInstall(details): the object stored on the first install
InstallDefaults ==
    [volumeThreshold |-> DefaultVolumeThreshold,
     silenceDuration |-> DefaultSilenceDuration,
     enabled |-> TRUE]

\* the defaults AudioMonitor.getSettings() passes to get()
ContentDefaults ==
    [volumeThreshold |-> DefaultVolumeThreshold,
     silenceDuration |-> DefaultSilenceDuration,
     enabled |-> TRUE]

\* the defaults PopupController.loadSettings() passes to get()
PopupDefaults ==
    [enabled |-> TRUE, volumeThreshold |-> DefaultVolumeThreshold,
     silenceDuration |-> DefaultSilenceDuration]

\* the defaults OptionsController.loadSettings() passes to get()
OptionsDefaults ==
    [enabled |-> TRUE, volumeThreshold |-> DefaultVolumeThreshold,
     silenceDuration |-> DefaultSilenceDuration,
     monitoringInterval |-> TickIntervalMs, sensitivityMode |-> "normal"]

\* the object resetToDefaults() assigns to this.settings: volumeThreshold 0.1
ResetSettings ==
    [enabled |-> TRUE, volumeThreshold |-> 10,
     silenceDuration |-> DefaultSilenceDuration,
     monitoringInterval |-> TickIntervalMs, sensitivityMode |-> "normal"]

\* applySensitivityMode(): 0.05 and 50 ms, 0.2 and 200 ms, 0.1 and 100 ms;
\* "custom" keeps the settings
ApplySensitivityMode(settings) ==
    CASE settings.sensitivityMode = "high" ->
            [settings EXCEPT !.volumeThreshold = 5, !.monitoringInterval = 50]
      [] settings.sensitivityMode = "low" ->
            [settings EXCEPT !.volumeThreshold = 20, !.monitoringInterval = 200]
      [] settings.sensitivityMode = "normal" ->
            [settings EXCEPT !.volumeThreshold = 10, !.monitoringInterval = 100]
      [] OTHER -> settings

\* getSettings() and the lines of init() that follow it: parseFloat(v) || 0.01,
\* parseInt(v) || 3, Boolean(enabled) and then settings.enabled !== false
ContentRead(storage) ==
    LET result == StorageGet(storage, ContentDefaults)
    IN  [volumeThreshold |-> ParseOr(result.volumeThreshold, DefaultVolumeThreshold),
         maxSilenceDuration |-> ParseOr(result.silenceDuration, DefaultSilenceDuration),
         enabled |-> result.enabled]

DefaultsInit ==
    /\ monitor = NewMonitor(DefaultSilenceDuration)
    /\ control = [muted |-> FALSE]
    /\ pendingKeys = 0
    /\ tickTimer = 0
    /\ parts = NoParts
    /\ hist = NoHistory
    /\ last = Step("env", "none")
    /\ life = Running

\* chrome.runtime.onInstalled: reason "install" stores the defaults, "update"
\* only logs
HandleInstall(reason) ==
    /\ parts' = [parts EXCEPT !.storage =
                    IF reason = "install" THEN StorageSet(@, InstallDefaults) ELSE @]
    /\ last' = [Step("installed", "none") EXCEPT !.event = reason]
    /\ UNCHANGED <<monitor, control, pendingKeys, tickTimer, hist, life>>

\* the content script reads its settings
ContentGetSettings ==
    /\ parts' = [parts EXCEPT !.content = ContentRead(parts.storage)]
    /\ last' = Step("contentRead", "none")
    /\ UNCHANGED <<monitor, control, pendingKeys, tickTimer, hist, life>>

\* the popup opens: loadSettings()
PopupLoadSettings ==
    /\ parts' = [parts EXCEPT !.popup = StorageGet(parts.storage, PopupDefaults)]
    /\ last' = Step("popupRead", "none")
    /\ UNCHANGED <<monitor, control, pendingKeys, tickTimer, hist, life>>

\* the popup's enabled toggle: the setting changes and saveSettings() stores
\* this.settings
PopupEnabledToggle(checked) ==
    LET settings == [parts.popup EXCEPT !.enabled = checked]
    IN  /\ parts' = [parts EXCEPT !.popup = settings,
                                  !.storage = StorageSet(@, settings)]
        /\ last' = Step("popupInput", "none")
        /\ UNCHANGED <<monitor, control, pendingKeys, tickTimer, hist, life>>

\* the options page opens: loadSettings()
OptionsLoadSettings ==
    /\ parts' = [parts EXCEPT !.options = StorageGet(parts.storage, OptionsDefaults)]
    /\ last' = Step("optionsRead", "none")
    /\ UNCHANGED <<monitor, control, pendingKeys, tickTimer, hist, life>>

\* the options page's threshold slider: only this.settings changes
OptionsVolumeThreshold(value) ==
    /\ parts' = [parts EXCEPT !.options.volumeThreshold = value]
    /\ last' = Step("optionsInput", "none")
    /\ UNCHANGED <<monitor, control, pendingKeys, tickTimer, hist, life>>

\* the sensitivity select changes: the mode is kept and applySensitivityMode()
\* runs
OptionsSensitivityMode(value) ==
    /\ parts' = [parts EXCEPT !.options =
                    ApplySensitivityMode([@ EXCEPT !.sensitivityMode = value])]
    /\ last' = [Step("sensitivity", "none") EXCEPT !.event = value]
    /\ UNCHANGED <<monitor, control, pendingKeys, tickTimer, hist, life>>

\* the save button: saveSettings()
OptionsSaveSettings ==
    /\ parts' = [parts EXCEPT !.storage = StorageSet(@, parts.options)]
    /\ last' = Step("optionsSave", "none")
    /\ UNCHANGED <<monitor, control, pendingKeys, tickTimer, hist, life>>

\* the reset button: resetToDefaults(), with the answer confirm() gets
OptionsResetToDefaults(confirmed) ==
    /\ parts' = [parts EXCEPT !.options = IF confirmed THEN ResetSettings ELSE @]
    /\ last' = [Step("reset", "none") EXCEPT
                    !.event = IF confirmed THEN "confirmed" ELSE "cancelled"]
    /\ UNCHANGED <<monitor, control, pendingKeys, tickTimer, hist, life>>

DefaultsNext ==
    \/ \E reason \in {"install", "update"} : HandleInstall(reason)
    \/ ContentGetSettings
    \/ PopupLoadSettings
    \/ \E checked \in BOOLEAN : PopupEnabledToggle(checked)
    \/ OptionsLoadSettings
    \/ \E value \in SliderThresholds : OptionsVolumeThreshold(value)
    \/ \E value \in SensitivityModes : OptionsSensitivityMode(value)
    \/ OptionsSaveSettings
    \/ \E confirmed \in BOOLEAN : OptionsResetToDefaults(confirmed)

DefaultsSpec == DefaultsInit /\ [][DefaultsNext]_vars

\* ------------------------------------------------------------ properties
TickDone == last.op = "tick"
Silent == IsSilence(last.averageVolume, monitor.volumeThreshold)
Elapsed == monitor.silenceDuration
Reached == GeqSeconds(monitor.silenceDuration, monitor.maxSilenceDuration)

\* C1: after a tick at or above the threshold the elapsed silence is 0; every
\* sub-threshold tick makes it exactly one tick interval (the double 0.1) larger,
\* so that after n consecutive sub-threshold ticks it is exactly n intervals,
\* without drift; it is never negative.
C1_ElapsedSilenceExact ==
    /\ TickDone /\ ~Silent => Elapsed = Zero
    /\ Elapsed.ticks >= 0
    /\ Elapsed.err = TenthErr * Elapsed.ticks

\* C2: a tick whose sample equals volumeThreshold is speech: the silence timer is
\* 0 after it, it dispatches no mute, and it dispatches an unmute when the belief
\* after reconciliation is muted.
C2_TieIsSpeech ==
    TickDone /\ last.averageVolume = monitor.volumeThreshold
        => /\ Elapsed = Zero
           /\ last.action # "mute"
           /\ last.believed => last.action = "unmute"

C2_Witness ==
    /\ TickDone
    /\ last.averageVolume = monitor.volumeThreshold
    /\ last.believed
    /\ last.action = "unmute"

\* C3: with N = silenceDuration / tickInterval, a run of sub-threshold ticks that
\* all observe the control unmuted, with no cooldown active, dispatches its first
\* mute on the N-th tick and not earlier.
C3_FirstMuteOnNthTick ==
    TickDone /\ Silent /\ hist.clean
        => /\ Elapsed.ticks < 10 * monitor.maxSilenceDuration => last.action # "mute"
           /\ Elapsed.ticks = 10 * monitor.maxSilenceDuration => last.action = "mute"

\* C3, scenario A alone (silence duration 3 s): no mute on ticks 1..29, a mute on
\* tick 30.
C3_ScenarioA ==
    monitor.maxSilenceDuration = 3 => C3_FirstMuteOnNthTick

\* C4: a tick that comes less than cooldownSeconds after an unmute was recorded
\* (hist.sinceUnmute is the time since the last one recorded, so the time since
\* the last manually detected one is no smaller) dispatches no mute.
C4_CooldownSafety ==
    TickDone /\ last.action = "mute" => hist.sinceUnmute >= CooldownMs

C4_Witness ==
    /\ TickDone /\ Silent /\ Reached
    /\ last.found /\ ~last.truth /\ ~last.believed
    /\ hist.unmuteKind = "manual"
    /\ 0 < hist.sinceUnmute /\ hist.sinceUnmute < CooldownMs
    /\ last.action = "none"

\* C5: a sub-threshold tick counts one more tick of silence whether or not the
\* cooldown is active, and, the belief after reconciliation being unmuted, it
\* dispatches a mute (one key press) exactly when the cooldown has run out and
\* the elapsed silence has reached silenceDuration: the first such tick mutes,
\* and no speech tick is needed in between.
C5_CooldownKeepsCounting ==
    [][ last'.op = "tick" /\ IsSilence(last'.averageVolume, monitor'.volumeThreshold)
          => /\ monitor'.silenceDuration.ticks = monitor.silenceDuration.ticks + 1
             /\ ~last'.believed
                  => /\ last'.action = "mute"
                        <=> /\ hist'.sinceUnmute >= CooldownMs
                            /\ GeqSeconds(monitor'.silenceDuration,
                                          monitor'.maxSilenceDuration)
                     /\ last'.action = "mute" => pendingKeys' = pendingKeys + 1
      ]_vars

\* the mute at the end of a cooldown that a manual unmute started, after a silence
\* that began before the cooldown did
C5_Witness ==
    /\ TickDone /\ Silent
    /\ last.found /\ ~last.truth
    /\ last.action = "mute"
    /\ hist.unmuteKind = "manual"
    /\ Elapsed.ticks * TickIntervalMs > CooldownMs

\* C6: a tick that observes the control muted and samples at or above the
\* threshold dispatches exactly one unmute, cooldown or not.
C6_SpeechUnmutes ==
    [][ ( /\ last'.op = "tick" /\ last'.found /\ last'.truth
          /\ ~IsSilence(last'.averageVolume, monitor'.volumeThreshold) )
          => /\ last'.action = "unmute"
             /\ pendingKeys' = pendingKeys + 1
      ]_vars

C6_Witness ==
    /\ TickDone /\ ~Silent
    /\ last.found /\ last.truth
    /\ last.inCooldown
    /\ last.action = "unmute"

\* C7: when the control reads unmuted after reading muted, and the monitor
\* dispatched no unmute in between, the tick's reconciliation stamps the
\* last-unmute time with the current time: the cooldown starts at that tick.
C7_ManualUnmuteStamped ==
    TickDone /\ last.manual
        => /\ monitor.sinceLastUnmute = 0
           /\ last.inCooldown
           /\ last.action # "mute"

C7_Witness ==
    /\ TickDone /\ last.manual
    /\ hist.unmuteKind = "manual"
    /\ monitor.sinceLastUnmute = 0

C9_NoRedundantToggle ==
    /\ last.action = "mute" => ~last.truth
    /\ last.action = "unmute" => last.truth

\* C10: in every tick the belief the decision is taken on is the control's state
\* in that tick.
C10_DecisionOnGroundTruth ==
    TickDone => last.believed = last.truth

\* C11: between two changes of the control's observed state the tick loop
\* dispatches at most one action: a tick that has dispatched since the reading
\* last changed dispatches nothing, whatever the control does with the key.
C11_OneActionPerTransition ==
    [][ last'.op = "tick" /\ last'.action # "none"
          => ~ActedSinceChange(hist, last'.found, last'.truth) ]_vars

\* C17: a tick that does not find the control dispatches nothing and leaves the
\* silence state and the mute state as they were.
C17_NotFoundSkipsDecision ==
    [][ last'.op = "tick" /\ ~last'.found
          => /\ last'.action = "none"
             /\ pendingKeys' = pendingKeys
             /\ monitor' = monitor ]_vars

\* steps in which a 100 ms timer called monitorAudioLevel(), and steps in which
\* stopMonitoring() ran
TimerOps == {"tick", "stale", "tickError", "noAnalyser"}
StopOps == {"tickError", "startError", "noAnalyser", "ensure", "debugRestart"}
\* the steps in which monitorAudioLevel() is called, by a timer or by
\* startMonitoring() at the end of init()
MonitorOps == TimerOps \cup {"start", "startError", "acquired"}

\* C12: at most one tick loop is alive: a monitor that is monitoring never has
\* more than one 100 ms timer of monitorAudioLevel() pending.
C12_NoParallelTicks ==
    life.isMonitoring /\ life.enabled => TickTimers(life.timers) <= 1

\* C13: a tick timer that fires while monitoring is stopped samples nothing,
\* reconciles nothing, dispatches nothing and sets no further timer.
C13_StoppedTickDoesNothing ==
    [][ last'.op \in TimerOps /\ ~life.isMonitoring
          => /\ last'.op = "stale"
             /\ monitor' = monitor
             /\ pendingKeys' = pendingKeys
             /\ control' = control
             /\ life' = [life EXCEPT !.timers = Tail(@)] ]_vars

\* the timer that was pending when the monitor was stopped has fired and is gone
C13_Witness ==
    /\ last.op = "stale"
    /\ ~life.isMonitoring
    /\ TickTimers(life.timers) = 0
    /\ InitTimers(life.timers) > 0
    /\ monitor.silenceDuration.ticks > 0

\* C14: a step that stops monitoring dispatches nothing and leaves believedMuted
\* and the last-unmute time as they were; the control keeps its state.
C14_StopLeavesMuteState ==
    [][ last'.op \in StopOps
          => /\ ~life'.isMonitoring
             /\ last'.action = "none"
             /\ pendingKeys' = pendingKeys
             /\ control' = control
             /\ monitor'.isMuted = monitor.isMuted
             /\ monitor'.sinceLastUnmute = monitor.sinceLastUnmute ]_vars

\* a muted control, believed muted, when monitoring is stopped
C14_Witness ==
    /\ last.op = "debugRestart"
    /\ ~life.isMonitoring
    /\ control.muted /\ monitor.isMuted
    /\ monitor.sinceLastUnmute < CooldownMs

\* C15: the monitor never holds more than one open audio context, and none is
\* open once monitoring has been stopped.
C15_ContextsReleased ==
    /\ life.openContexts <= 1
    /\ last.op \in StopOps => life.openContexts = 0

\* C16: the first tick of a loop that init() starts begins from elapsed silence
\* 0 and believedMuted false, with no cooldown carried over: it counts at most
\* its own sample, believes what it reads (unmuted when it reads nothing) and is
\* in a cooldown only if it starts one.
C16_RestartForgetsHistory ==
    [][ last'.op = "start"
          => /\ monitor'.silenceDuration.ticks <= 1
             /\ ~last'.found => ~last'.believed
             /\ last'.inCooldown => last'.detected ]_vars

\* C18: a tick whose sample read throws changes nothing of the silence and mute
\* state, dispatches nothing, sets no further tick timer, and restarts the
\* monitor: stopMonitoring() and init() from a timer.
C18_SampleReadFailure ==
    [][ last'.op \in {"tickError", "startError"}
          => /\ monitor' = monitor
             /\ pendingKeys' = pendingKeys
             /\ control' = control
             /\ last'.action = "none"
             /\ ~life'.isMonitoring /\ ~life'.analyser /\ ~life'.audioContext
             /\ TickTimers(life'.timers) =
                    TickTimers(life.timers) - (IF last'.op = "tickError" THEN 1 ELSE 0)
             /\ InitTimers(life'.timers) = InitTimers(life.timers) + 1
             /\ last'.op = "tickError"
                  => life' = RestartMonitoring([life EXCEPT !.timers = Tail(@)]) ]_vars

C18_Witness ==
    /\ last.op = "tickError"
    /\ monitor.silenceDuration.ticks > 0
    /\ TickTimers(life.timers) = 0
    /\ InitTimers(life.timers) = 1

\* C19: a tick in which reading the control throws is a no-op that restarts the
\* monitor: it takes no decision and records no manual unmute.
C19_StateReadFailure ==
    [][ last'.op \in {"tick", "start"} /\ last'.read \in {"find", "state"}
          => /\ monitor' = monitor
             /\ pendingKeys' = pendingKeys
             /\ ~last'.detected
             /\ ~life'.isMonitoring
             /\ InitTimers(life'.timers) = InitTimers(life.timers) + 1 ]_vars

\* C20: once getUserMedia() has failed and left the monitor stopped, init()
\* asks for the microphone again only after autoMuteDebug.restart().
C20_NoRetryAfterFailure ==
    [][ hist.acquisitionFailed => life'.mediaRequests <= life.mediaRequests ]_vars

\* a tick loop is alive: the monitor is monitoring and one 100 ms timer of
\* monitorAudioLevel() is pending
TickLoopAlive == life.isMonitoring /\ life.enabled /\ TickTimers(life.timers) = 1

\* C21: after a tick error has restarted the monitor, a tick loop is alive
\* again at some later time, and never more than one.
C21_RecoveryLiveness ==
    /\ (last.op \in {"tickError", "noAnalyser"}) ~> TickLoopAlive
    /\ [](TickTimers(life.timers) <= 1)

C21_Witness ==
    /\ last.op = "tickError"
    /\ ~life.isMonitoring
    /\ TickTimers(life.timers) = 0

\* C22: the listener's update of volumeThreshold or silenceDuration leaves the
\* elapsed silence, believedMuted and the last-unmute time as they were and
\* dispatches nothing; the next tick compares its sample with the threshold
\* storage holds now and the silence counted so far, plus its own interval, with
\* the duration storage holds now.
C22_SettingsApplyNextTick ==
    [][ /\ last'.op = "settingsChanged"
             => /\ monitor'.silenceDuration = monitor.silenceDuration
                /\ monitor'.isMuted = monitor.isMuted
                /\ monitor'.sinceLastUnmute = monitor.sinceLastUnmute
                /\ monitor'.lastMuteState = monitor.lastMuteState
                /\ pendingKeys' = pendingKeys
                /\ control' = control
                /\ last'.action = "none"
        /\ last'.op = "tick"
             => LET silent == last'.averageVolume < hist.stored.volumeThreshold
                IN  /\ monitor'.silenceDuration =
                           IF silent THEN AddTenth(monitor.silenceDuration) ELSE Zero
                    /\ last'.action = "mute"
                         <=> /\ silent
                             /\ GeqSeconds(AddTenth(monitor.silenceDuration),
                                           hist.stored.silenceDuration)
                             /\ ~last'.believed
                             /\ ~last'.inCooldown
      ]_vars

\* a tick mutes on a silence that is shorter than the duration the monitor was
\* started with, at a sample that the first threshold would have called speech
C22_Witness ==
    /\ TickDone
    /\ last.action = "mute"
    /\ hist.stored.silenceDuration = 1
    /\ monitor.silenceDuration.ticks > 10
    /\ last.averageVolume = DefaultVolumeThreshold

\* C23: the interval storage holds is live: after a change of monitoringInterval
\* the next tick sets its timer to the new interval, and a sub-threshold tick
\* adds the new interval to the elapsed silence.
C23_IntervalIsLive ==
    [][ last'.op = "tick"
          => /\ tickTimer' = hist.stored.monitoringInterval
             /\ IsSilence(last'.averageVolume, monitor.volumeThreshold)
                  => monitor'.silenceDuration.ticks * TickIntervalMs =
                         monitor.silenceDuration.ticks * TickIntervalMs
                             + hist.stored.monitoringInterval
      ]_vars

\* C24: whenever the monitor is enabled and holds a valid signal source, a tick
\* timer is pending at some later time unless the monitor is disabled again:
\* switching enabled off and on again does not end the ticking.
C24_EnabledResumes ==
    (life.enabled /\ life.isMonitoring /\ life.analyser)
        ~> (TickTimers(life.timers) > 0 \/ ~life.enabled)

\* C25: a tick whose dispatch ends in a sendMessage that throws keeps the toggle
\* it sent and the belief it set, sets the next tick timer and restarts nothing.
C25_SendFailureNotEscalated ==
    [][ last'.op \in {"tick", "start"} /\ last'.read = "notify"
          => /\ pendingKeys' = pendingKeys + 1
             /\ monitor'.isMuted = (last'.action = "mute")
             /\ life'.isMonitoring
             /\ InitTimers(life'.timers) = InitTimers(life.timers)
             /\ TickTimers(life'.timers) =
                    TickTimers(life.timers) + (IF last'.op = "start" THEN 1 ELSE 0)
      ]_vars

\* C26: a step that dispatches sets believedMuted to its target and emits the
\* one event of its kind, a step that dispatches nothing emits none, and a step
\* emits an event exactly when it sends a toggle.
C26_OneEventPerToggle ==
    [][ /\ last'.action = "mute" => monitor'.isMuted /\ last'.event = "AUTO_MUTED"
        /\ last'.action = "unmute" => ~monitor'.isMuted /\ last'.event = "AUTO_UNMUTED"
        /\ last'.action = "none" => last'.event = "none"
        /\ last'.event # "none" <=> pendingKeys' = pendingKeys + 1
      ]_vars

\* C27: every dispatch delivers exactly one keydown to the page, whichever of
\* simulateMuteKey() and simulateMuteKeyFallback() builds it.
C27_OneKeydownPerDispatch ==
    [][ IF last'.action # "none"
        THEN pendingKeys' = pendingKeys + 1
        ELSE pendingKeys' <= pendingKeys ]_vars

\* C28: on a button that carries data-is-muted the answer is that attribute's
\* value (muted exactly when it is "true"), whatever the label and the class
\* names say.
C28_AttributeFirst ==
    last.op = "probe" /\ control.dataIsMuted # {}
        => last.truth = (control.dataIsMuted = {"true"})

\* the attribute says unmuted, the label and a class name say muted
C28_Witness ==
    /\ last.op = "probe"
    /\ control.dataIsMuted = {"false"}
    /\ Includes(control.ariaLabel, <<"Mute">>)
    /\ ClassSaysMuted(control.classList)
    /\ ~last.truth

\* C29: a button without the attribute whose label matches none of the
\* patterns, and a button on which probing throws, are reported not muted.
C29_SafeDefault ==
    ( /\ last.op = "probe"
      /\ \/ control.broken
         \/ control.dataIsMuted = {} /\ Matching(control.ariaLabel) = {} )
        => ~last.truth

\* C30: a call on window.autoMuteDebug changes nothing of the monitor (elapsed
\* silence, believedMuted, last-unmute time, configuration) and dispatches
\* nothing.
C30_DebugReadOnly ==
    [][ last'.op = "debug"
          => /\ monitor' = monitor
             /\ pendingKeys' = pendingKeys
             /\ last'.action = "none" ]_vars

\* C31: the elapsed silence (silenceDuration, in seconds) is never more than the
\* wall-clock time since it was last 0, the ticks being at least one interval
\* apart.
C31_SilenceWithinWallClock ==
    hist.timed =>
        \/ monitor.silenceDuration.ticks * TickIntervalMs < hist.sinceReset
        \/ /\ monitor.silenceDuration.ticks * TickIntervalMs = hist.sinceReset
           /\ monitor.silenceDuration.err <= 0

\* C32: a tick dispatches a mute exactly when its sample is below the
\* threshold, the elapsed silence with this tick's increment has reached
\* silenceDuration, the belief after reconciliation is unmuted and the cooldown
\* is over; and a tick that mutes ends a run of at least
\* silenceDuration / tickInterval sub-threshold ticks with no tick at or above
\* the threshold among them.
C32_MuteDecisionRule ==
    [][ last'.op = "tick"
          => /\ last'.action = "mute"
                  <=> /\ IsSilence(last'.averageVolume, monitor'.volumeThreshold)
                      /\ GeqSeconds(monitor'.silenceDuration,
                                    monitor'.maxSilenceDuration)
                      /\ ~last'.believed
                      /\ ~last'.inCooldown
             /\ last'.action = "mute"
                  => hist'.quietTicks * TickIntervalMs
                         >= monitor'.maxSilenceDuration * 1000
      ]_vars

C32_Witness ==
    /\ TickDone /\ Silent /\ Reached
    /\ last.action = "mute"
    /\ monitor.maxSilenceDuration = DefaultSilenceDuration
    /\ ~last.believed /\ ~last.inCooldown
    /\ hist.quietTicks * TickIntervalMs >= DefaultSilenceDuration * 1000

\* C33: whenever isMonitoring is true a tick is pending (a tick that executes
\* is one step here): the flag never reports a monitor whose loop has ended.
C33_MonitoringHasTick ==
    life.isMonitoring => TickTimers(life.timers) > 0

\* C34: a call of monitorAudioLevel() made while enabled is false (from a timer
\* or from startMonitoring) dispatches nothing and leaves the elapsed silence,
\* believedMuted and the rest of the monitor as they were; an init() that reads
\* enabled = false calls no getUserMedia() and starts no tick loop.
C34_DisabledDoesNothing ==
    [][ /\ last'.op \in MonitorOps /\ ~life.enabled
             => /\ last'.action = "none" /\ last'.event = "none"
                /\ monitor' = monitor
                /\ pendingKeys' = pendingKeys
                /\ TickTimers(life'.timers) <= TickTimers(life.timers)
        /\ last'.op = "settings" /\ ~life'.enabled
             => /\ life'.mediaRequests = life.mediaRequests
                /\ life'.timers = life.timers
                /\ life'.isMonitoring = life.isMonitoring
      ]_vars

\* a pending timer has called monitorAudioLevel() of a monitor that is switched
\* off with its flag up, some silence counted
C34_Witness ==
    /\ last.op = "stale"
    /\ ~life.enabled /\ life.isMonitoring
    /\ monitor.silenceDuration.ticks > 0

\* C35: the monitor never has more than one visibilitychange listener (and
\* URL-watcher interval), and one page event leads to at most one restart.
C35_WatchersRegisteredOnce ==
    /\ [](life.counted => life.watchers <= 1)
    /\ [][ last'.op = "visible"
             => InitTimers(life'.timers) <= InitTimers(life.timers) + 1 ]_vars

\* a button with nothing but the aria-label given
Labelled(ariaLabel) ==
    [dataIsMuted |-> {}, ariaLabel |-> ariaLabel, classList |-> <<>>,
     broken |-> FALSE]

JaUnmuteLabel == <<"myuuto", "kaijo">>
EnUnmuteLabel == <<"Un", "mute">>
JaMuteLabel == <<"myuuto">>
EnMuteLabel == <<"Mute">>

\* C36: on a button without the data-is-muted attribute, the Japanese and the
\* English unmute label get the same verdict, the Japanese and the English mute
\* label get the same verdict, and the two verdicts differ.
C36_LabelLocaleConsistent ==
    last.op = "probe" /\ control.dataIsMuted = {} /\ ~control.broken
        => /\ control.ariaLabel \in {JaUnmuteLabel, EnUnmuteLabel}
                => last.truth = IsButtonMuted(Labelled(EnUnmuteLabel))
           /\ control.ariaLabel \in {JaMuteLabel, EnMuteLabel}
                => last.truth = IsButtonMuted(Labelled(EnMuteLabel))
           /\ IsButtonMuted(Labelled(EnMuteLabel))
                # IsButtonMuted(Labelled(EnUnmuteLabel))

\* C37: in the userscript, after a tick whose sample or state read threw, a
\* tick runs again at some later time.
C37_UserscriptRecovers ==
    (last.op \in {"tickError", "startError"}) ~> (last.op \in {"tick", "start"})

\* C38: autoMuteCount and autoUnmuteCount are the numbers of AUTO_MUTED and of
\* AUTO_UNMUTED messages handled since the last RESET_STATS; RESET_STATS leaves
\* both counts 0 and lastActivity null; GET_STATS and a message of an unknown
\* type leave the stats as they were.
C38_StatsCountMessages ==
    /\ [](/\ parts.stats.autoMuteCount = hist.mutedHandled
          /\ parts.stats.autoUnmuteCount = hist.unmutedHandled)
    /\ [][ last'.op = "message"
             => /\ last'.event = "RESET_STATS"
                     => /\ parts'.stats.autoMuteCount = 0
                        /\ parts'.stats.autoUnmuteCount = 0
                        /\ parts'.stats.lastActivity = "null"
                /\ last'.event \in {"GET_STATS", "SETTINGS_UPDATE"}
                     => parts'.stats = parts.stats ]_vars

\* the stats are read after two mutes and an unmute have been counted
C38_Witness ==
    /\ last.op = "message" /\ last.event = "GET_STATS"
    /\ parts.stats.autoMuteCount = 2
    /\ parts.stats.autoUnmuteCount = 1
    /\ parts.stats.lastActivity = "time"

\* the keys of the documented defaults a read has to supply: those the storage
\* does not hold
Supplied(storage, settings, name) ==
    \A k \in DOMAIN Documented :
        storage[k] = {} => settings[IF k = "silenceDuration" THEN name ELSE k] = Documented[k]

\* C39: every component that supplies default settings supplies the documented
\* ones (volumeThreshold 0.01, silenceDuration 3, enabled true): the install
\* stores them, the reads of the content script, the popup and the options
\* page give them for the keys the storage does not hold, and the options
\* page's reset-to-defaults and its "normal" sensitivity mode leave
\* volumeThreshold 0.01
C39_DocumentedDefaults ==
    [][/\ (last'.op = "installed" /\ last'.event = "install") =>
            \A k \in DOMAIN Documented : parts'.storage[k] = {Documented[k]}
       /\ last'.op = "contentRead" =>
            Supplied(parts.storage, parts'.content, "maxSilenceDuration")
       /\ last'.op = "popupRead" =>
            Supplied(parts.storage, parts'.popup, "silenceDuration")
       /\ last'.op = "optionsRead" =>
            Supplied(parts.storage, parts'.options, "silenceDuration")
       /\ (last'.op = "reset" /\ last'.event = "confirmed") =>
            \A k \in DOMAIN Documented : parts'.options[k] = Documented[k]
       /\ (last'.op = "sensitivity" /\ last'.event = "normal") =>
            parts'.options.volumeThreshold = Documented.volumeThreshold]_vars

====
